---- MODULE Spec2Model ----
(***************************************************************************)
(* Model of the TTM counselling chatbot: the five stage handlers           *)
(* (agents/*_agent.py), the wire framing they share and the /chat/stream   *)
(* orchestrator (main.py).                                                 *)
(*                                                                         *)
(* Text is a sequence of symbols.  A symbol is a one-character string      *)
(* (" ", "\n", "k", "{", "}"), the 15-character literal "---END_STAGE---", *)
(* or the name of one of the fixed phrases of the source ("<mi.intro>"),   *)
(* which stands for that literal and has the literal's length.             *)
(***************************************************************************)
EXTENDS Integers, Sequences, FiniteSets, TLC

\* ------------------------------------------------------------------------
\* Bounds of the model
\* ------------------------------------------------------------------------
MaxQLen == 3
MaxTurn == 5
MaxHist == 8
NReq == 2
MaxConv == 10
MaxLong == 12

\* ------------------------------------------------------------------------
\* Text
\* ------------------------------------------------------------------------
NL == "\n"
DASHES == "---END_STAGE---"
QUOTE == "\""
ESC_NL == "\\n"

\* str.strip() with no argument removes leading and trailing whitespace
IsSpace(c) == c \in {" ", NL}

RECURSIVE LStrip(_)
LStrip(t) == IF t # <<>> /\ IsSpace(Head(t)) THEN LStrip(Tail(t)) ELSE t

RECURSIVE RStrip(_)
RStrip(t) ==
    IF t # <<>> /\ IsSpace(t[Len(t)]) THEN RStrip(SubSeq(t, 1, Len(t) - 1)) ELSE t

Strip(t) == RStrip(LStrip(t))

\* len() of the literal each symbol stands for
Width(sym) ==
    CASE sym = DASHES -> 15
      [] sym = "<empathy.fallback>" -> 33
      [] sym = "<empathy.default>" -> 33
      [] sym = "<empathy.error>" -> 37
      [] sym = "<mi.intro>" -> 42
      [] sym = "<mi.fallback>" -> 24
      [] sym = "<mi.default>" -> 26
      [] sym = "<mi.error>" -> 38
      [] sym = "<cbt1.intro>" -> 50
      [] sym = "<cbt1.fallback>" -> 30
      [] sym = "<cbt1.default>" -> 27
      [] sym = "<cbt1.transition>" -> 44
      [] sym = "<cbt1.error>" -> 19
      [] sym = "<cbt2.intro>" -> 58
      [] sym = "<cbt2.fallback>" -> 25
      [] sym = "<cbt2.default>" -> 29
      [] sym = "<cbt2.similar>" -> 34
      [] sym = "<cbt2.transition>" -> 39
      [] sym = "<cbt2.error>" -> 27
      [] sym = "<cbt3.intro>" -> 75
      [] sym = "<cbt3.fallback>" -> 36
      [] sym = "<cbt3.default>" -> 37
      [] sym = "<cbt3.similar>" -> 23
      [] sym = "<cbt3.transition>" -> 35
      [] sym = "<cbt3.error>" -> 23
      [] sym = "<cbt3.abort>" -> 28
      [] OTHER -> 1

RECURSIVE PyLen(_)
PyLen(t) == IF t = <<>> THEN 0 ELSE Width(Head(t)) + PyLen(Tail(t))

RECURSIVE Concat(_)
Concat(ts) == IF ts = <<>> THEN <<>> ELSE Head(ts) \o Concat(Tail(ts))

\* ------------------------------------------------------------------------
\* difflib.SequenceMatcher(None, a[:30], b[:30]).ratio() > 0.85
\* ------------------------------------------------------------------------
\* the characters of a text: character k of symbol sym is <<sym, k>>
RECURSIVE Chars(_)
Chars(t) ==
    IF t = <<>> THEN <<>>
    ELSE [k \in 1..Width(Head(t)) |-> <<Head(t), k>>] \o Chars(Tail(t))

Slice30(t) == LET c == Chars(t) IN SubSeq(c, 1, IF Len(c) < 30 THEN Len(c) ELSE 30)

RECURSIVE MatchLen(_, _, _, _, _, _)
MatchLen(a, b, i, j, ahi, bhi) ==
    IF i <= ahi /\ j <= bhi /\ a[i] = b[j]
    THEN 1 + MatchLen(a, b, i + 1, j + 1, ahi, bhi)
    ELSE 0

\* find_longest_match: the longest block, the earliest in a, then the earliest in b
FindLongestMatch(a, b, alo, ahi, blo, bhi) ==
    LET cand == {<<i, j>> \in (alo..ahi) \X (blo..bhi) : a[i] = b[j]}
        len(p) == MatchLen(a, b, p[1], p[2], ahi, bhi)
    IN  IF cand = {} THEN <<alo, blo, 0>>
        ELSE LET best == CHOOSE p \in cand :
                             \A q \in cand :
                                 \/ len(p) > len(q)
                                 \/ /\ len(p) = len(q)
                                    /\ \/ p[1] < q[1]
                                       \/ p[1] = q[1] /\ p[2] <= q[2]
             IN  <<best[1], best[2], len(best)>>

\* get_matching_blocks: the total size of the blocks found left and right of the
\* longest one, recursively
RECURSIVE Matches(_, _, _, _, _, _)
Matches(a, b, alo, ahi, blo, bhi) ==
    IF alo > ahi \/ blo > bhi THEN 0
    ELSE LET m == FindLongestMatch(a, b, alo, ahi, blo, bhi)
         IN  IF m[3] = 0 THEN 0
             ELSE m[3]
                  + Matches(a, b, alo, m[1] - 1, blo, m[2] - 1)
                  + Matches(a, b, m[1] + m[3], ahi, m[2] + m[3], bhi)

\* ratio() = 2.0 * M / T, and 1.0 when both are empty; compared with 0.85
Similar(reply, past) ==
    LET a == Slice30(reply)
        b == Slice30(past)
        T == Len(a) + Len(b)
    IN  IF T = 0 THEN TRUE
        ELSE 200 * Matches(a, b, 1, Len(a), 1, Len(b)) > 85 * T

\* ------------------------------------------------------------------------
\* Wire codec: json.dumps(obj, ensure_ascii=False) and json.loads
\* ------------------------------------------------------------------------
\* The encoded object is the token sequence
\*   {  " key " :  value  ,  " key " :  value  ...  }
\* A string value is quoted and its newlines are escaped; a list of strings is
\* [ string , string ... ]; an integer is its decimal token; a boolean is
\* true or false.  The kind of a value is taken from its key.
KeyKind(k) ==
    CASE k = "next_stage" -> "name"
      [] k = "turn" -> "int"
      [] k \in {"response", "question"} -> "text"
      [] k = "history" -> "list"
      [] OTHER -> "bool"

IntRange == -1..(MaxTurn + 2)

EscapeSym(c) == IF c = NL THEN ESC_NL ELSE c
UnescapeSym(c) == IF c = ESC_NL THEN NL ELSE c

JsonString(t) == <<QUOTE>> \o [i \in 1..Len(t) |-> EscapeSym(t[i])] \o <<QUOTE>>

RECURSIVE JsonItems(_)
JsonItems(l) ==
    IF l = <<>> THEN <<>>
    ELSE IF Len(l) = 1 THEN JsonString(l[1])
    ELSE JsonString(l[1]) \o <<",">> \o JsonItems(Tail(l))

JsonValue(k, v) ==
    CASE KeyKind(k) = "name" -> JsonString(<<v>>)
      [] KeyKind(k) = "int" -> <<ToString(v)>>
      [] KeyKind(k) = "text" -> JsonString(v)
      [] KeyKind(k) = "list" -> <<"[">> \o JsonItems(v) \o <<"]">>
      [] OTHER -> <<IF v THEN "true" ELSE "false">>

RECURSIVE JsonMembers(_, _)
JsonMembers(keys, obj) ==
    IF keys = <<>> THEN <<>>
    ELSE JsonString(<<Head(keys)>>) \o <<":">> \o JsonValue(Head(keys), obj[Head(keys)])
         \o (IF Len(keys) = 1 THEN <<>> ELSE <<",">> \o JsonMembers(Tail(keys), obj))

\* json.dumps of a dict whose keys were inserted in the order keys
JsonDumps(keys, obj) == <<"{">> \o JsonMembers(keys, obj) \o <<"}">>

NoObject == [k \in {} |-> 0]
ParseFail == [ok |-> FALSE, val |-> 0, rest |-> <<>>]

\* the index of the first c in r, 0 when there is none
RECURSIVE IndexFrom(_, _, _)
IndexFrom(r, c, i) ==
    IF i > Len(r) THEN 0 ELSE IF r[i] = c THEN i ELSE IndexFrom(r, c, i + 1)

\* a string: an opening quote, no raw control character, a closing quote
ParseString(r) ==
    IF r = <<>> \/ Head(r) # QUOTE THEN ParseFail
    ELSE LET j == IndexFrom(r, QUOTE, 2)
         IN  IF j = 0 \/ \E i \in 2..(j - 1) : r[i] = NL THEN ParseFail
             ELSE [ok |-> TRUE,
                   val |-> [i \in 1..(j - 2) |-> UnescapeSym(r[i + 1])],
                   rest |-> SubSeq(r, j + 1, Len(r))]

RECURSIVE ParseItems(_, _)
ParseItems(r, acc) ==
    LET s == ParseString(r)
    IN  IF ~s.ok \/ s.rest = <<>> THEN ParseFail
        ELSE IF Head(s.rest) = "]"
             THEN [ok |-> TRUE, val |-> Append(acc, s.val), rest |-> Tail(s.rest)]
        ELSE IF Head(s.rest) = ","
             THEN ParseItems(Tail(s.rest), Append(acc, s.val))
        ELSE ParseFail

ParseValue(r) ==
    IF r = <<>> THEN ParseFail
    ELSE IF Head(r) = QUOTE THEN ParseString(r)
    ELSE IF Head(r) = "[" THEN
         IF Len(r) >= 2 /\ r[2] = "]"
         THEN [ok |-> TRUE, val |-> <<>>, rest |-> SubSeq(r, 3, Len(r))]
         ELSE ParseItems(Tail(r), <<>>)
    ELSE IF Head(r) \in {"true", "false"}
         THEN [ok |-> TRUE, val |-> (Head(r) = "true"), rest |-> Tail(r)]
    ELSE IF \E n \in IntRange : ToString(n) = Head(r)
         THEN [ok |-> TRUE,
               val |-> CHOOSE n \in IntRange : ToString(n) = Head(r),
               rest |-> Tail(r)]
    ELSE ParseFail

\* a value decoded as a string under the key next_stage is a stage name
Decoded(k, v) == IF KeyKind(k) = "name" /\ Len(v) = 1 THEN v[1] ELSE v

RECURSIVE ParseMembers(_, _)
ParseMembers(r, acc) ==
    LET k == ParseString(r)
    IN  IF ~k.ok \/ Len(k.val) # 1 \/ k.rest = <<>> \/ Head(k.rest) # ":" THEN ParseFail
        ELSE LET v == ParseValue(Tail(k.rest))
                 key == k.val[1]
             IN  IF ~v.ok \/ v.rest = <<>> THEN ParseFail
                 ELSE LET obj == (key :> Decoded(key, v.val)) @@ acc
                      IN  IF v.rest = <<"}">>
                          THEN [ok |-> TRUE, val |-> obj, rest |-> <<>>]
                          ELSE IF Head(v.rest) = ","
                               THEN ParseMembers(Tail(v.rest), obj)
                               ELSE ParseFail

\* json.loads: the object, or a failure (JSONDecodeError)
JsonLoads(s) ==
    IF Len(s) < 2 \/ s[1] # "{" THEN ParseFail
    ELSE IF s = <<"{", "}">> THEN [ok |-> TRUE, val |-> NoObject, rest |-> <<>>]
    ELSE ParseMembers(Tail(s), NoObject)

\* the sentinel every trailer chunk starts with: b"\n---END_STAGE---\n"
Sentinel == <<NL, DASHES, NL>>

TrailerChunk(keys, obj) == Sentinel \o JsonDumps(keys, obj)

\* the index of the last c in r, 0 when there is none
RECURSIVE LastIndex(_, _, _)
LastIndex(r, c, i) ==
    IF i < 1 THEN 0 ELSE IF r[i] = c THEN i ELSE LastIndex(r, c, i - 1)

\* re.search(r'---END_STAGE---\n({.*})', text, re.DOTALL): the leftmost position
\* where the sentinel is followed by an opening brace; the group runs from that
\* brace to the last closing brace of the text.  <<>> when nothing matches.
ReSearch(text) ==
    LET last == LastIndex(text, "}", Len(text))
        starts == {i \in 1..Len(text) :
                      /\ i + 2 < last
                      /\ text[i] = DASHES
                      /\ text[i + 1] = NL
                      /\ text[i + 2] = "{"}
    IN  IF starts = {} THEN <<>>
        ELSE LET i == CHOOSE m \in starts : \A n \in starts : m <= n
             IN  SubSeq(text, i + 2, last)

\* ------------------------------------------------------------------------
\* Generation Port (llama_cpp.Llama behind load_*_model / create_chat_completion)
\* ------------------------------------------------------------------------
\* One behaviour of the backend during one request:
\*   load    - FALSE when load_*_model raises (the Llama constructor failed);
\*             TRUE when it returns the instance, cached or newly built
\*   tokens  - the delta contents create_chat_completion(stream=True) delivers
\*   fail_at - -1 when the stream completes; n >= 0 when it raises after n tokens
Delivered(gen) ==
    IF gen.fail_at < 0 THEN gen.tokens ELSE SubSeq(gen.tokens, 1, gen.fail_at)

GenFails(gen) == ~gen.load \/ gen.fail_at >= 0

\* "if token:" skips empty contents; the first one sent is preceded by b"\n"
TokenChunks(toks) ==
    LET sent == SelectSeq(toks, LAMBDA t : t # <<>>)
    IN  IF sent = <<>> THEN <<>> ELSE << <<NL>> >> \o sent

\* what a handler invocation hands back: the chunks it yields (the text chunks,
\* then the sentinel and the encoded trailer as one chunk), the dict of its
\* trailer and the order of its keys, its use of the Generation Port, and
\* whether an exception left the generator
Outcome(path, text, keys, trailer, loads, gens, messages) ==
    [path |-> path, chunks |-> Append(text, TrailerChunk(keys, trailer)),
     keys |-> keys, trailer |-> trailer,
     loads |-> loads, gens |-> gens, messages |-> messages,
     raised |-> FALSE]

Raised(chunks) ==
    [path |-> "raised", chunks |-> chunks, keys |-> <<>>, trailer |-> NoObject,
     loads |-> 0, gens |-> 0, messages |-> <<>>, raised |-> TRUE]

Msg(role, content) == [role |-> role, content |-> content]

\* the messages built from history[from..], two entries at a time (1-based from)
RECURSIVE HistoryMessages(_, _, _)
HistoryMessages(history, from, pairsOnly) ==
    IF from > Len(history) THEN <<>>
    ELSE (IF from + 1 <= Len(history)
          THEN <<Msg("user", history[from]), Msg("assistant", history[from + 1])>>
          ELSE IF pairsOnly THEN <<>> ELSE <<Msg("user", history[from])>>)
         \o HistoryMessages(history, from + 2, pairsOnly)

\* history[-10:]
Last10(history) ==
    SubSeq(history, IF Len(history) > 10 THEN Len(history) - 9 ELSE 1, Len(history))

\* range(max(0, len(history) - 10), ...) as a 1-based index
WindowStart(history) == IF Len(history) > 10 THEN Len(history) - 9 ELSE 1

HasAttr(state, name) == name \in DOMAIN state

\* the length below which a trimmed question is answered with the stage's
\* clarification fallback ("if not user_input" is a minimum of one character)
MinLength(stage) ==
    CASE stage = "empathy" -> 3
      [] stage = "mi" -> 2
      [] OTHER -> 1

\* ------------------------------------------------------------------------
\* agents/empathy_agent.py
\* ------------------------------------------------------------------------
EmpathyKeys == <<"next_stage", "response", "turn", "intro_shown", "history">>

\* a variant of EmpathyTrailer that leaves empathy for cbt1
EmpathyTrailerSkipping(next_stage, response, turn, history) ==
    [next_stage |-> IF next_stage = "mi" THEN "cbt1" ELSE next_stage,
     response |-> response, turn |-> turn,
     intro_shown |-> TRUE, history |-> history]

EmpathyTrailer(next_stage, response, turn, history) ==
    [next_stage |-> next_stage, response |-> response, turn |-> turn,
     intro_shown |-> TRUE, history |-> history]

stream_empathy_reply(question, turn, gen) ==
    LET user_input == Strip(question)
        sent == TokenChunks(Delivered(gen))
        full_response == Concat(Delivered(gen))
        stripped == Strip(full_response)
        reply == IF stripped = <<>> \/ PyLen(stripped) < 2
                 THEN <<"<empathy.default>">> ELSE stripped
        messages == <<Msg("system", <<"<empathy.prompt>">>), Msg("user", user_input)>>
    IN  IF PyLen(user_input) < MinLength("empathy")
        THEN LET t == EmpathyTrailer("empathy", <<"<empathy.fallback>">>, turn,
                                     <<user_input, <<"<empathy.fallback>">> >>)
             IN  Outcome("fallback",
                         << <<"<empathy.fallback>">> >>,
                         EmpathyKeys, t, 0, 0, <<>>)
        ELSE IF ~gen.load
        THEN LET t == EmpathyTrailer("empathy", <<"<empathy.error>">>, turn,
                                     <<user_input, <<"<empathy.error>">> >>)
             IN  Outcome("error",
                         << <<"<empathy.error>">> >>,
                         EmpathyKeys, t, 1, 0, <<>>)
        ELSE IF gen.fail_at >= 0
        THEN LET t == EmpathyTrailer("empathy", <<"<empathy.error>">>, turn,
                                     <<user_input, <<"<empathy.error>">> >>)
             IN  Outcome("error",
                         sent \o << <<"<empathy.error>">> >>,
                         EmpathyKeys, t, 1, 1, messages)
        ELSE LET t == EmpathyTrailer(IF turn >= 4 THEN "mi" ELSE "empathy", reply,
                                     IF turn >= 4 THEN 0 ELSE turn + 1,
                                     <<user_input, reply>>)
             IN  Outcome("success",
                         sent,
                         EmpathyKeys, t, 1, 1, messages)

\* ------------------------------------------------------------------------
\* agents/mi_agent.py
\* ------------------------------------------------------------------------
MiKeys == <<"next_stage", "response", "history", "intro_shown">>

MiTrailer(next_stage, response, history) ==
    [next_stage |-> next_stage, response |-> response, history |-> history,
     intro_shown |-> TRUE]

stream_mi_reply(state, gen) ==
    LET user_input == Strip(state.question)
        sent == TokenChunks(Delivered(gen))
        full_response == Concat(Delivered(gen))
        stripped == Strip(full_response)
        reply == IF stripped = <<>> THEN <<"<mi.default>">> ELSE stripped
        messages == <<Msg("system", <<"<mi.prompt>">>)>>
                    \o HistoryMessages(state.history, WindowStart(state.history), FALSE)
                    \o <<Msg("user", user_input)>>
        turn_count == Len(state.history) \div 2
        next_stage == IF turn_count + 1 >= 5 THEN "cbt1" ELSE "mi"
    IN  IF ~HasAttr(state, "intro_shown") THEN Raised(<<>>)
        ELSE IF ~state.intro_shown
        THEN LET t == MiTrailer("mi", <<"<mi.intro>">>,
                                Append(state.history, <<"<mi.intro>">>))
             IN  Outcome("intro", << <<"<mi.intro>">> >>,
                         MiKeys, t, 0, 0, <<>>)
        ELSE IF user_input = <<>> \/ PyLen(user_input) < MinLength("mi")
        THEN LET t == MiTrailer("mi", <<"<mi.fallback>">>,
                                state.history \o <<user_input, <<"<mi.fallback>">> >>)
             IN  Outcome("fallback", << <<"<mi.fallback>">> >>,
                         MiKeys, t, 0, 0, <<>>)
        ELSE IF ~gen.load
        THEN LET t == MiTrailer("mi", <<"<mi.error>">>, Append(state.history, user_input))
             IN  Outcome("error", << <<"<mi.error>">> >>,
                         MiKeys, t, 1, 0, <<>>)
        ELSE IF gen.fail_at >= 0
        THEN LET t == MiTrailer("mi", <<"<mi.error>">>, Append(state.history, user_input))
             IN  Outcome("error",
                         sent \o << <<"<mi.error>">> >>,
                         MiKeys, t, 1, 1, messages)
        ELSE LET t == MiTrailer(next_stage, reply, state.history \o <<user_input, reply>>)
             IN  Outcome("success", sent,
                         MiKeys, t, 1, 1, messages)

\* ------------------------------------------------------------------------
\* agents/cbt1_agent.py
\* ------------------------------------------------------------------------
Cbt1Keys == <<"next_stage", "turn", "response", "question", "intro_shown", "history">>

Cbt1Trailer(next_stage, turn, response, history) ==
    [next_stage |-> next_stage, turn |-> turn, response |-> response,
     question |-> <<>>, intro_shown |-> TRUE, history |-> history]

\* the idempotent-append guard of lines 121-123
Cbt1Append(history, user_input, reply) ==
    IF Len(history) >= 2 /\ history[Len(history) - 1] = user_input
                         /\ history[Len(history)] = reply
    THEN history
    ELSE history \o <<user_input, reply>>

stream_cbt1_reply(state, gen) ==
    LET user_input == Strip(state.question)
        history == state.history
        sent == TokenChunks(Delivered(gen))
        full_response == Concat(Delivered(gen))
        stripped == Strip(full_response)
        reply0 == IF stripped = <<>> THEN <<"<cbt1.default>">> ELSE stripped
        messages == <<Msg("system", <<"<cbt1.prompt>">>)>>
                    \o HistoryMessages(history, 1, TRUE)
                    \o <<Msg("user", user_input)>>
        next_turn == state.turn + 1
        next_stage == IF next_turn >= 5 THEN "cbt2" ELSE "cbt1"
        reply == IF next_stage = "cbt2" THEN reply0 \o <<"<cbt1.transition>">> ELSE reply0
    IN  IF ~HasAttr(state, "intro_shown") THEN Raised(<<>>)
        ELSE IF ~state.intro_shown
        THEN LET t == Cbt1Trailer("cbt1", 0, <<"<cbt1.intro>">>,
                                  Append(history, <<"<cbt1.intro>">>))
             IN  Outcome("intro", << <<"<cbt1.intro>">> >>,
                         Cbt1Keys, t, 0, 0, <<>>)
        ELSE IF user_input = <<>>
        THEN LET t == Cbt1Trailer("cbt1", state.turn, <<"<cbt1.fallback>">>, history)
             IN  Outcome("fallback",
                         << <<"<cbt1.fallback>">> >>,
                         Cbt1Keys, t, 0, 0, <<>>)
        ELSE IF ~gen.load
        THEN LET t == Cbt1Trailer("cbt1", state.turn, <<"<cbt1.error>">>, history)
             IN  Outcome("error", << <<"<cbt1.error>">> >>,
                         Cbt1Keys, t, 1, 0, <<>>)
        ELSE IF gen.fail_at >= 0
        THEN LET t == Cbt1Trailer("cbt1", state.turn, <<"<cbt1.error>">>, history)
             IN  Outcome("error",
                         sent \o << <<"<cbt1.error>">> >>,
                         Cbt1Keys, t, 1, 1, messages)
        ELSE LET t == Cbt1Trailer(next_stage,
                                  IF next_stage = "cbt2" THEN 0 ELSE next_turn,
                                  reply, Cbt1Append(history, user_input, reply))
             IN  Outcome("success", sent,
                         Cbt1Keys, t, 1, 1, messages)

\* ------------------------------------------------------------------------
\* agents/cbt2_agent.py
\* ------------------------------------------------------------------------
Cbt2Keys == <<"next_stage", "response", "history", "turn", "intro_shown">>

Cbt2Trailer(next_stage, response, history, turn) ==
    [next_stage |-> next_stage, response |-> response, history |-> history,
     turn |-> turn, intro_shown |-> TRUE]

\* the repeat-avoidance loop: the disclaimer is appended once when any of the
\* last ten history entries is similar to the reply
AvoidRepeat(reply, history, disclaimer) ==
    IF \E i \in 1..Len(Last10(history)) : Similar(reply, Last10(history)[i])
    THEN reply \o <<disclaimer>>
    ELSE reply

stream_cbt2_reply(state, gen) ==
    LET user_input == Strip(state.question)
        sent == TokenChunks(Delivered(gen))
        full_response == Concat(Delivered(gen))
        stripped == Strip(full_response)
        reply0 == IF stripped = <<>> THEN <<"<cbt2.default>">> ELSE stripped
        reply1 == AvoidRepeat(reply0, state.history, "<cbt2.similar>")
        messages == <<Msg("system", <<"<cbt2.prompt>">>)>>
                    \o HistoryMessages(state.history, WindowStart(state.history), FALSE)
                    \o <<Msg("user", user_input)>>
        next_turn == state.turn + 1
        next_stage == IF next_turn >= 5 THEN "cbt3" ELSE "cbt2"
        reply == IF next_stage = "cbt3" THEN reply1 \o <<"<cbt2.transition>">> ELSE reply1
    IN  IF ~HasAttr(state, "intro_shown") THEN Raised(<<>>)
        ELSE IF ~state.intro_shown
        THEN LET t == Cbt2Trailer("cbt2", <<"<cbt2.intro>">>,
                                  Append(state.history, <<"<cbt2.intro>">>), 0)
             IN  Outcome("intro", << <<"<cbt2.intro>">> >>,
                         Cbt2Keys, t, 0, 0, <<>>)
        ELSE IF user_input = <<>>
        THEN LET t == Cbt2Trailer("cbt2", <<"<cbt2.fallback>">>,
                                  state.history \o <<user_input, <<"<cbt2.fallback>">> >>,
                                  state.turn + 1)
             IN  Outcome("fallback",
                         << <<"<cbt2.fallback>">> >>,
                         Cbt2Keys, t, 0, 0, <<>>)
        ELSE IF ~gen.load
        THEN LET t == Cbt2Trailer("cbt2", <<"<cbt2.error>">>,
                                  Append(state.history, user_input), state.turn + 1)
             IN  Outcome("error", << <<"<cbt2.error>">> >>,
                         Cbt2Keys, t, 1, 0, <<>>)
        ELSE IF gen.fail_at >= 0
        THEN LET t == Cbt2Trailer("cbt2", <<"<cbt2.error>">>,
                                  Append(state.history, user_input), state.turn + 1)
             IN  Outcome("error",
                         sent \o << <<"<cbt2.error>">> >>,
                         Cbt2Keys, t, 1, 1, messages)
        ELSE LET t == Cbt2Trailer(next_stage, reply,
                                  state.history \o <<user_input, reply>>,
                                  IF next_stage = "cbt3" THEN 0 ELSE next_turn)
             IN  Outcome("success", sent,
                         Cbt2Keys, t, 1, 1, messages)

\* ------------------------------------------------------------------------
\* agents/cbt3_agent.py
\* ------------------------------------------------------------------------
Cbt3Keys ==
    <<"next_stage", "turn", "response", "intro_shown",
      "awaiting_preparation_decision", "history">>

Cbt3Trailer(next_stage, turn, response, history) ==
    [next_stage |-> next_stage, turn |-> turn, response |-> response,
     intro_shown |-> TRUE, awaiting_preparation_decision |-> FALSE,
     history |-> history]

stream_cbt3_reply(state, gen) ==
    LET user_input == Strip(state.question)
        sent == TokenChunks(Delivered(gen))
        full_response == Concat(Delivered(gen))
        stripped == Strip(full_response)
        reply0 == IF stripped = <<>> THEN <<"<cbt3.default>">> ELSE stripped
        reply1 == AvoidRepeat(reply0, state.history, "<cbt3.similar>")
        messages == <<Msg("system", <<"<cbt3.prompt>">>)>>
                    \o HistoryMessages(state.history, 1, FALSE)
                    \o <<Msg("user", user_input)>>
        is_ending == state.turn + 1 >= 5
        next_stage == IF is_ending THEN "end" ELSE "cbt3"
        next_turn == IF is_ending THEN 0 ELSE state.turn + 1
        reply == IF is_ending THEN reply1 \o <<"<cbt3.transition>">> ELSE reply1
    IN  IF ~HasAttr(state, "intro_shown") THEN Raised(<<>>)
        ELSE IF ~state.intro_shown
        THEN LET t == Cbt3Trailer("cbt3", 0, <<"<cbt3.intro>">>,
                                  Append(state.history, <<"<cbt3.intro>">>))
             IN  Outcome("intro", << <<"<cbt3.intro>">> >>,
                         Cbt3Keys, t, 0, 0, <<>>)
        ELSE IF user_input = <<>>
        THEN LET t == Cbt3Trailer("cbt3", state.turn, <<"<cbt3.fallback>">>,
                                  state.history)
             IN  Outcome("fallback",
                         << <<"<cbt3.fallback>">> >>,
                         Cbt3Keys, t, 0, 0, <<>>)
        ELSE IF ~gen.load
        THEN LET t == Cbt3Trailer("end", 0, <<"<cbt3.abort>">>, state.history)
             IN  Outcome("error", << <<"<cbt3.error>">> >>,
                         Cbt3Keys, t, 1, 0, <<>>)
        ELSE IF gen.fail_at >= 0
        THEN LET t == Cbt3Trailer("end", 0, <<"<cbt3.abort>">>, state.history)
             IN  Outcome("error",
                         sent \o << <<"<cbt3.error>">> >>,
                         Cbt3Keys, t, 1, 1, messages)
        ELSE LET t == Cbt3Trailer(next_stage, next_turn, reply,
                                  state.history \o <<user_input, reply>>)
             IN  Outcome("success", sent,
                         Cbt3Keys, t, 1, 1, messages)

\* ------------------------------------------------------------------------
\* main.py
\* ------------------------------------------------------------------------
Stages == {"empathy", "mi", "cbt1", "cbt2", "cbt3", "end"}

\* the keys of agent_streams
HandledStages == {"empathy", "mi", "cbt1", "cbt2", "cbt3"}

\* the fields main.AgentState declares; turn alone has a default
StateFields == {"stage", "question", "response", "history", "turn"}
RequiredFields == {"stage", "question", "response", "history"}

\* a variant of Validates that accepts any stage name
ValidatesAnyStage(incoming) == RequiredFields \subseteq DOMAIN incoming

\* AgentState(**incoming_state) succeeds
Validates(incoming) ==
    /\ RequiredFields \subseteq DOMAIN incoming
    /\ incoming.stage \in Stages

\* the validated model: undeclared keys are dropped, turn defaults to 0
AgentState(incoming) ==
    [f \in StateFields |->
        IF f = "turn" /\ "turn" \notin DOMAIN incoming THEN 0 ELSE incoming[f]]

\* dict.get(key, default)
Get(obj, key, default) == IF key \in DOMAIN obj THEN obj[key] ELSE default

MainKeys == <<"next_stage", "response", "turn", "history">>

MainTrailer(next_stage, response, turn, history) ==
    [next_stage |-> next_stage, response |-> response, turn |-> turn,
     history |-> history]

\* agent_streams[state.stage]()
Dispatch(state, gen) ==
    CASE state.stage = "empathy" ->
             stream_empathy_reply(Strip(state.question), state.turn, gen)
      [] state.stage = "mi" -> stream_mi_reply(state, gen)
      [] state.stage = "cbt1" -> stream_cbt1_reply(state, gen)
      [] state.stage = "cbt2" -> stream_cbt2_reply(state, gen)
      [] state.stage = "cbt3" -> stream_cbt3_reply(state, gen)

NoOutcome ==
    [path |-> "none", chunks |-> <<>>, keys |-> <<>>, trailer |-> NoObject,
     loads |-> 0, gens |-> 0, messages |-> <<>>, raised |-> FALSE]

\* a variant of Adopt that falls back to the defaults of dict.get when nothing
\* parses, instead of keeping the fields of the request
AdoptDefaults(state, full_text) ==
    LET group == ReSearch(full_text)
        parsed == JsonLoads(group)
    IN  IF group # <<>> /\ parsed.ok
        THEN [next_stage |-> Get(parsed.val, "next_stage", state.stage),
              turn |-> Get(parsed.val, "turn", 0),
              history |-> Get(parsed.val, "history", <<>>),
              response |-> Get(parsed.val, "response", <<>>),
              parsed |-> TRUE, result |-> parsed.val]
        ELSE [next_stage |-> state.stage, turn |-> 0,
              history |-> <<>>, response |-> <<>>,
              parsed |-> FALSE, result |-> NoObject]

\* lines 129-143: the state adopted from the accumulated text
Adopt(state, full_text) ==
    LET group == ReSearch(full_text)
        parsed == JsonLoads(group)
    IN  IF group # <<>> /\ parsed.ok
        THEN [next_stage |-> Get(parsed.val, "next_stage", state.stage),
              turn |-> Get(parsed.val, "turn", 0),
              history |-> Get(parsed.val, "history", <<>>),
              response |-> Get(parsed.val, "response", <<>>),
              parsed |-> TRUE, result |-> parsed.val]
        ELSE [next_stage |-> state.stage, turn |-> state.turn,
              history |-> state.history, response |-> state.response,
              parsed |-> FALSE, result |-> NoObject]

\* lines 145-150: the canonical trailer
Canonical(adopted) ==
    MainTrailer(adopted.next_stage,
                IF Strip(adopted.response) = <<>> THEN <<"<main.no_answer>">>
                ELSE Strip(adopted.response),
                adopted.turn, adopted.history)

Reply(path, stream, called, outcome, adopted, final) ==
    [path |-> path, stream |-> stream, called |-> called, outcome |-> outcome,
     adopted |-> adopted, final |-> final]

\* a variant of Emit that returns after the error chunk when the handler raised
EmitUnlessRaised(h, adopted, final) ==
    Reply("handled",
          h.chunks
          \o (IF h.raised THEN << <<NL, "<main.stream_error>">> >>
              ELSE <<TrailerChunk(MainKeys, final)>>),
          TRUE, h, adopted, final)

\* a variant of Emit that forwards the handler's chunks and nothing more
EmitHandlerOnly(h, adopted, final) ==
    Reply("handled", h.chunks, TRUE, h, adopted, final)

\* line 145: the canonical trailer closes the stream
Emit(h, adopted, final) ==
    Reply("handled",
          h.chunks
          \o (IF h.raised THEN << <<NL, "<main.stream_error>">> >> ELSE <<>>)
          \o <<TrailerChunk(MainKeys, final)>>,
          TRUE, h, adopted, final)

Finish(h, adopted) == Emit(h, adopted, Canonical(adopted))

\* lines 119-124: every chunk of the handler is forwarded and decoded into
\* full_text; an exception out of the handler is answered with an error chunk
Tee(state, h) == Finish(h, Adopt(state, Concat(h.chunks)))

InputError(t) ==
    Reply("input_error", << <<"<main.parse_error>">>, TrailerChunk(MainKeys, t)>>,
          FALSE, NoOutcome, NoObject, t)

\* a variant of async_gen without the model_ready guard
async_gen_unguarded(state, ready, gen) ==
    IF state.stage \notin HandledStages
    THEN Reply("unsupported", << <<"<main.unsupported>">> >>,
               FALSE, NoOutcome, NoObject, NoObject)
    ELSE Tee(state, Dispatch(state, gen))

async_gen(state, ready, gen) ==
    IF ~ready
    THEN Reply("not_ready", << <<"<main.not_ready>">> >>,
               FALSE, NoOutcome, NoObject, NoObject)
    ELSE IF state.stage \notin HandledStages
    THEN Reply("unsupported", << <<"<main.unsupported>">> >>,
               FALSE, NoOutcome, NoObject, NoObject)
    ELSE Tee(state, Dispatch(state, gen))

\* POST /chat/stream: body.json is FALSE when request.json() raises; body.state is
\* data.get("state", {})
chat_stream(body, ready, gen) ==
    IF ~body.json \/ ~Validates(body.state)
    THEN InputError(MainTrailer("empathy", <<"<main.bad_input>">>, 0, <<>>))
    ELSE async_gen(AgentState(body.state), ready, gen)

\* ------------------------------------------------------------------------
\* Inputs
\* ------------------------------------------------------------------------
\* questions: every text of blanks and letters up to MaxQLen characters
\* (<<"k", "k", "k">> is the three-character filler of the specification)
Questions == UNION {[1..n -> {" ", "k"}] : n \in 0..MaxQLen}

Turns == 0..MaxTurn

UserText == <<"k", "k", "k">>
AssistantText == <<"k", "k">>

\* a transcript of n entries, user and assistant alternating
History(n) == [i \in 1..n |-> IF i % 2 = 1 THEN UserText ELSE AssistantText]

Histories == {History(n) : n \in 0..MaxHist}

\* the request's response field: the last reply the caller holds
Responses == {<<>>, <<"k", " ">>}

\* behaviours of the Generation Port: the load fails; the call raises at once;
\* the stream raises after its tokens; the stream completes with no token, a
\* one-letter reply, a padded two-letter reply behind an empty delta, or a text
\* that is the sentinel followed by an opening brace
Completions ==
    { <<>>,
      << <<"k">> >>,
      << <<>>, <<"k", "k">>, <<" ">> >>,
      << <<DASHES, NL, "{">> >> }

GenBehaviours ==
    {[load |-> FALSE, tokens |-> <<>>, fail_at |-> -1]}
    \cup {[load |-> TRUE, tokens |-> c, fail_at |-> -1] : c \in Completions}
    \cup {[load |-> TRUE, tokens |-> c, fail_at |-> Len(c)] :
             c \in {<<>>, << <<>>, <<"k", "k">>, <<" ">> >>}}

\* the port was not used by the request
PortUnused == [load |-> FALSE, tokens |-> <<>>, fail_at |-> -2]

\* a state as the handlers' own AgentState classes declare it, with the stage
\* and the turn the caller holds (mi's class declares neither, cbt2's no stage)
HandlerStates(stage) ==
    [stage : {stage}, question : Questions, response : {<<>>},
     history : Histories, turn : Turns, intro_shown : BOOLEAN]

\* request bodies: no JSON; no state; an undeclared stage; a missing field; a
\* state of the declared shape, with or without turn and intro_shown; a state
\* at turn 4 with eight history entries and intro_shown true
WireStates ==
    [stage : Stages, question : Questions, response : Responses,
     history : Histories, turn : Turns]

Bodies ==
    {[json |-> FALSE, state |-> NoObject], [json |-> TRUE, state |-> NoObject]}
    \cup {[json |-> TRUE,
           state |-> [stage |-> "s_turn", question |-> <<>>, response |-> <<>>,
                      history |-> <<>>, turn |-> 0]],
          [json |-> TRUE,
           state |-> [stage |-> "mi", question |-> <<>>, history |-> <<>>,
                      turn |-> 0]]}
    \cup {[json |-> TRUE, state |-> s] : s \in WireStates}
    \cup {[json |-> TRUE,
           state |-> [stage |-> st, question |-> UserText, response |-> <<>>,
                      history |-> <<>>, intro_shown |-> b]] :
             st \in Stages, b \in BOOLEAN}
    \cup {[json |-> TRUE,
           state |-> [stage |-> st, question |-> UserText, response |-> <<>>,
                      history |-> History(8), turn |-> 4, intro_shown |-> TRUE]] :
             st \in HandledStages}

\* ------------------------------------------------------------------------
\* State
\* ------------------------------------------------------------------------
VARIABLES
    model_ready,    \* main.model_ready
    op,             \* the operation served last
    input,          \* its argument: a handler's state or a request body
    port,           \* the behaviour of the Generation Port during it
    outcome,        \* what the stage handler handed back
    reply,          \* what chat_stream streamed
    LLM_INSTANCE,   \* the handlers' model caches: stage -> instance, 0 when absent
    constructed,    \* per stage, how many times Llama(...) returned an instance
    requests,       \* the requests in flight when several are served at once
    running         \* the request whose plain call holds the event loop, or 0

svars == <<op, input, port, outcome, reply>>
cvars == <<LLM_INSTANCE, constructed, requests, running>>
vars == <<model_ready, op, input, port, outcome, reply, LLM_INSTANCE, constructed,
          requests, running>>

NoReply ==
    [path |-> "none", stream |-> <<>>, called |-> FALSE, adopted |-> NoObject,
     final |-> NoObject]

\* the requests served at once
Reqs == 1..NReq

\* a slot with no request in it
IdleRequest ==
    [pc |-> "idle", call |-> NoObject, gen |-> PortUnused, llm |-> 0,
     rep |-> Reply("none", <<>>, FALSE, NoOutcome, NoObject, NoObject),
     stream |-> <<>>]

Init ==
    /\ model_ready = FALSE
    /\ op = "none"
    /\ input = NoObject
    /\ port = PortUnused
    /\ outcome = NoOutcome
    /\ reply = NoReply
    /\ LLM_INSTANCE = [k \in HandledStages |-> 0]
    /\ constructed = [k \in HandledStages |-> 0]
    /\ requests = [r \in Reqs |-> IdleRequest]
    /\ running = 0

\* the behaviours the port can show during a request: none when the handler,
\* run as far as its first use of the port, never reaches it
PortChoices(h) == IF h.loads = 0 THEN {PortUnused} ELSE GenBehaviours

\* @app.on_event("startup")
set_model_paths ==
    /\ op = "none"
    /\ ~model_ready
    /\ model_ready' = TRUE
    /\ UNCHANGED <<svars, cvars>>

\* one request is served at a time: the handlers and chat_stream keep nothing of
\* a request once its stream has ended
Served(name, in, gen, h) ==
    /\ op' = name
    /\ input' = in
    /\ port' = gen
    /\ outcome' = h
    /\ reply' = NoReply
    /\ UNCHANGED <<model_ready, cvars>>

Responded(body, gen, r) ==
    /\ op' = "chat_stream"
    /\ input' = body
    /\ port' = gen
    /\ outcome' = r.outcome
    /\ reply' = [path |-> r.path, stream |-> r.stream, called |-> r.called,
                 adopted |-> r.adopted, final |-> r.final]
    /\ UNCHANGED <<model_ready, cvars>>

EmpathyReply ==
    /\ op = "none"
    /\ \E q \in Questions, t \in Turns :
       \E gen \in PortChoices(stream_empathy_reply(q, t, PortUnused)) :
        Served("stream_empathy_reply",
               [stage |-> "empathy", question |-> q, turn |-> t], gen,
               stream_empathy_reply(q, t, gen))

MiReply ==
    /\ op = "none"
    /\ \E state \in HandlerStates("mi") :
       \E gen \in PortChoices(stream_mi_reply(state, PortUnused)) :
        Served("stream_mi_reply", state, gen, stream_mi_reply(state, gen))

Cbt1Reply ==
    /\ op = "none"
    /\ \E state \in HandlerStates("cbt1") :
       \E gen \in PortChoices(stream_cbt1_reply(state, PortUnused)) :
        Served("stream_cbt1_reply", state, gen, stream_cbt1_reply(state, gen))

Cbt2Reply ==
    /\ op = "none"
    /\ \E state \in HandlerStates("cbt2") :
       \E gen \in PortChoices(stream_cbt2_reply(state, PortUnused)) :
        Served("stream_cbt2_reply", state, gen, stream_cbt2_reply(state, gen))

Cbt3Reply ==
    /\ op = "none"
    /\ \E state \in HandlerStates("cbt3") :
       \E gen \in PortChoices(stream_cbt3_reply(state, PortUnused)) :
        Served("stream_cbt3_reply", state, gen, stream_cbt3_reply(state, gen))

ChatStream ==
    /\ op = "none"
    /\ \E body \in Bodies :
       \E gen \in PortChoices(chat_stream(body, model_ready, PortUnused).outcome) :
        Responded(body, gen, chat_stream(body, model_ready, gen))

\* the response stream has ended; the request's objects are dropped
Close ==
    /\ op # "none"
    /\ op' = "none"
    /\ input' = NoObject
    /\ port' = PortUnused
    /\ outcome' = NoOutcome
    /\ reply' = NoReply
    /\ UNCHANGED <<model_ready, cvars>>

Next ==
    \/ set_model_paths
    \/ EmpathyReply
    \/ MiReply
    \/ Cbt1Reply
    \/ Cbt2Reply
    \/ Cbt3Reply
    \/ ChatStream
    \/ Close

Spec == Init /\ [][Next]_vars

\* ------------------------------------------------------------------------
\* Several requests served at once
\* ------------------------------------------------------------------------
\* The handlers and async_gen are async generators driven by one event loop: a
\* request runs without interruption from one yield to the next, and the
\* requests interleave at the yields. load_*_model is a plain function with no
\* await in it, called between two yields of its handler.

\* a variant of Cached that never finds the entry
CachedNever(cache, key) == FALSE

\* "cache_key in LLM_INSTANCE" / "model_path in LLM_CBT1_INSTANCE"
Cached(cache, key) == cache[key] # 0

\* load_*_model(model_path): the cached instance, or a new one that is stored
\* under the key; ok is FALSE when the Llama constructor raises, and then
\* nothing is stored
load_model(cache, built, key, ok) ==
    IF Cached(cache, key)
    THEN [cache |-> cache, built |-> built, llm |-> cache[key]]
    ELSE IF ok
    THEN [cache |-> [cache EXCEPT ![key] = built[key] + 1],
          built |-> [built EXCEPT ![key] = @ + 1],
          llm |-> built[key] + 1]
    ELSE [cache |-> cache, built |-> built, llm |-> 0]

\* the calls served at once: cbt1's handler on a state of its own class, and
\* the chat endpoint on an empathy request and on a mi request
ConcState(stage) ==
    [stage |-> stage, question |-> UserText, response |-> <<>>,
     history |-> <<>>, turn |-> 0]

ConcCalls ==
    {[via |-> "handler",
      arg |-> [stage |-> "cbt1", question |-> UserText, response |-> <<>>,
               history |-> <<>>, turn |-> 0, intro_shown |-> TRUE]],
     [via |-> "chat", arg |-> [json |-> TRUE, state |-> ConcState("empathy")]],
     [via |-> "chat", arg |-> [json |-> TRUE, state |-> ConcState("mi")]]}

CallStage(call) ==
    IF call.via = "chat" THEN call.arg.state.stage ELSE call.arg.stage

\* the backend's behaviours: the constructor raises; two tokens and the end
\* of the stream; one token and an exception
ConcGens ==
    {[load |-> FALSE, tokens |-> <<>>, fail_at |-> -1],
     [load |-> TRUE, tokens |-> << <<"k">>, <<"k", "k">> >>, fail_at |-> -1],
     [load |-> TRUE, tokens |-> << <<"k">> >>, fail_at |-> 1]}

\* the constructor is not called, and so cannot raise, on a cache hit
ConcPort(h, cached) ==
    IF h.loads = 0 THEN {PortUnused}
    ELSE {g \in ConcGens : cached => g.load}

DirectReply(h) == Reply("direct", h.chunks, TRUE, h, NoObject, NoObject)

\* everything the call's generator will yield
Run(call, ready, gen) ==
    IF call.via = "chat" THEN chat_stream(call.arg, ready, gen)
    ELSE DirectReply(Dispatch(call.arg, gen))

\* a variant of NextChunk that yields the chunks last to first
NextChunkReversed(out, n) == out[Len(out) - n]

\* the chunk the generator yields after n chunks
NextChunk(out, n) == out[n + 1]

\* the request is accepted; its generator has not been resumed yet
Arrive(r) ==
    /\ requests[r].pc = "idle"
    /\ \E call \in ConcCalls :
        requests' = [requests EXCEPT ![r] = [@ EXCEPT !.pc = "arrived",
                                                     !.call = call]]
    /\ UNCHANGED <<model_ready, svars, LLM_INSTANCE, constructed, running>>

Started(r, gen, loaded, rep) ==
    /\ LLM_INSTANCE' = loaded.cache
    /\ constructed' = loaded.built
    /\ requests' = [requests EXCEPT ![r] =
           [pc |-> "streaming", call |-> @.call, gen |-> gen,
            llm |-> loaded.llm, rep |-> rep, stream |-> <<>>]]
    /\ UNCHANGED <<model_ready, svars>>

NotLoaded == [cache |-> LLM_INSTANCE, built |-> constructed, llm |-> 0]

\* the first resumption of the generator: the handler runs up to its first
\* yield, loading its model on the way when it gets that far
Resume(r) ==
    /\ requests[r].pc = "arrived"
    /\ \E gen \in ConcPort(Run(requests[r].call, model_ready, PortUnused).outcome,
                           Cached(LLM_INSTANCE, CallStage(requests[r].call))) :
        Started(r, gen,
                IF gen = PortUnused THEN NotLoaded
                ELSE load_model(LLM_INSTANCE, constructed,
                                CallStage(requests[r].call), gen.load),
                Run(requests[r].call, model_ready, gen))

\* the resumption taken as one step of the event loop
Start(r) == Resume(r) /\ UNCHANGED running

\* one chunk reaches the caller
Forward(r) ==
    /\ requests[r].pc = "streaming"
    /\ Len(requests[r].stream) < Len(requests[r].rep.stream)
    /\ requests' = [requests EXCEPT ![r].stream =
           Append(@, NextChunk(requests[r].rep.stream, Len(@)))]
    /\ UNCHANGED <<model_ready, svars, LLM_INSTANCE, constructed, running>>

\* the generator is exhausted and the response ends
EndResponse(r) ==
    /\ requests[r].pc = "streaming"
    /\ Len(requests[r].stream) = Len(requests[r].rep.stream)
    /\ requests' = [requests EXCEPT ![r] = IdleRequest]
    /\ UNCHANGED <<model_ready, svars, LLM_INSTANCE, constructed, running>>

Arrivals == \E r \in Reqs : Arrive(r)
Starts == \E r \in Reqs : Start(r)
Forwards == \E r \in Reqs : Forward(r)
Finishes == \E r \in Reqs : EndResponse(r)

ConcNext ==
    \/ set_model_paths
    \/ Arrivals
    \/ Starts
    \/ Forwards
    \/ Finishes

ConcSpec == Init /\ [][ConcNext]_vars

\* ------------------------------------------------------------------------
\* The event loop during a plain call
\* ------------------------------------------------------------------------
\* Llama(...) and create_chat_completion(...) are plain calls made inside the
\* handlers' coroutines: no await, no executor and no thread stands between
\* them and the event loop, whose only thread executes them. From the call to
\* its return the loop resumes no other coroutine.

\* the request's handler gets as far as load_*_model
ReachesPort(r) ==
    Run(requests[r].call, model_ready, PortUnused).outcome.loads > 0

\* the loop resumes the request's generator, which enters the handler and
\* its plain calls
Call(r) ==
    /\ running = 0
    /\ requests[r].pc = "arrived"
    /\ ReachesPort(r)
    /\ running' = r
    /\ UNCHANGED <<model_ready, svars, LLM_INSTANCE, constructed, requests>>

\* the calls return and the generator reaches its first yield
Return(r) ==
    /\ running = r
    /\ Resume(r)
    /\ running' = 0

\* the steps the loop takes between two plain calls: it accepts a request,
\* runs a generator that makes no call of the backend to its first yield,
\* sends a chunk, ends a response
Yield(r) ==
    /\ running = 0
    /\ \/ Arrive(r)
       \/ requests[r].pc = "arrived" /\ ~ReachesPort(r) /\ Start(r)
       \/ Forward(r)
       \/ EndResponse(r)

LoopNext ==
    \/ set_model_paths
    \/ \E r \in Reqs : Call(r)
    \/ \E r \in Reqs : Return(r)
    \/ \E r \in Reqs : Yield(r)

LoopSpec == Init /\ [][LoopNext]_vars

\* ------------------------------------------------------------------------
\* A conversation
\* ------------------------------------------------------------------------
\* The caller keeps the state of the conversation: it sends it with a question,
\* takes the fields of the trailer as the new state (a field the trailer does
\* not carry keeps its value) and sends that with the next question. The
\* handlers are called with a state of their own class; in the conversations
\* followed here the Generation Port always completes.

ConvQuestions == {UserText, <<>>}

ConvGens == {[load |-> TRUE, tokens |-> << <<"a">> >>, fail_at |-> -1]}

ConvPort(h) == IF h.loads = 0 THEN {PortUnused} ELSE ConvGens

HandlerName(stage) ==
    CASE stage = "empathy" -> "stream_empathy_reply"
      [] stage = "mi" -> "stream_mi_reply"
      [] stage = "cbt1" -> "stream_cbt1_reply"
      [] stage = "cbt2" -> "stream_cbt2_reply"
      [] stage = "cbt3" -> "stream_cbt3_reply"

\* the state the caller sends next
Resent(state, trailer, q) ==
    [stage |-> trailer.next_stage, question |-> q,
     response |-> trailer.response, history |-> trailer.history,
     turn |-> Get(trailer, "turn", state.turn),
     intro_shown |-> Get(trailer, "intro_shown", state.intro_shown)]

\* one turn: the handler of the state's stage answers the state
Turn(state) ==
    \E gen \in ConvPort(Dispatch(state, PortUnused)) :
        Served(HandlerName(state.stage), state, gen, Dispatch(state, gen))

\* the conversation opens in any stage, at turn 0 or 4, with an empty history
ConvStart ==
    /\ op = "none"
    /\ \E stage \in HandledStages, t \in {0, 4}, b \in BOOLEAN,
          q \in ConvQuestions :
        Turn([stage |-> stage, question |-> q, response |-> <<>>,
              history |-> <<>>, turn |-> t, intro_shown |-> b])

\* the caller resends what it got back, with its next question
ConvTurn ==
    /\ op \in {"stream_empathy_reply", "stream_mi_reply", "stream_cbt1_reply",
               "stream_cbt2_reply", "stream_cbt3_reply"}
    /\ outcome.trailer.next_stage \in HandledStages
    /\ Len(outcome.trailer.history) <= MaxConv
    /\ \E q \in ConvQuestions : Turn(Resent(input, outcome.trailer, q))

ConvNext ==
    \/ ConvStart
    \/ ConvTurn

ConvSpec == Init /\ [][ConvNext]_vars

\* ------------------------------------------------------------------------
\* A conversation with empty inputs and generation failures
\* ------------------------------------------------------------------------
\* one turn in which the question may be empty and the backend may fail
MixTurn(state) ==
    \E gen \in (IF Dispatch(state, PortUnused).loads = 0
                THEN {PortUnused} ELSE ConcGens) :
        Served(HandlerName(state.stage), state, gen, Dispatch(state, gen))

\* the conversation opens in any stage at turn 0 with an empty history
MixStart ==
    /\ op = "none"
    /\ \E stage \in HandledStages, b \in BOOLEAN, q \in ConvQuestions :
        MixTurn([stage |-> stage, question |-> q, response |-> <<>>,
                 history |-> <<>>, turn |-> 0, intro_shown |-> b])

\* the caller resends what it got back, with its next question
MixResend ==
    /\ op \in {"stream_empathy_reply", "stream_mi_reply", "stream_cbt1_reply",
               "stream_cbt2_reply", "stream_cbt3_reply"}
    /\ outcome.trailer.next_stage \in HandledStages
    /\ Len(outcome.trailer.history) <= MaxConv
    /\ Get(outcome.trailer, "turn", input.turn) <= MaxTurn
    /\ \E q \in ConvQuestions : MixTurn(Resent(input, outcome.trailer, q))

MixNext ==
    \/ MixStart
    \/ MixResend

MixSpec == Init /\ [][MixNext]_vars

\* ------------------------------------------------------------------------
\* Long transcripts
\* ------------------------------------------------------------------------
\* A handler called with a transcript of up to MaxLong entries, more than the
\* ten of the window.

LongStates ==
    [stage : HandledStages, question : ConvQuestions, response : {<<>>},
     history : {History(n) : n \in 0..MaxLong}, turn : {0, 4},
     intro_shown : BOOLEAN]

LongReply ==
    /\ op = "none"
    /\ \E state \in LongStates :
       \E gen \in (IF Dispatch(state, PortUnused).loads = 0
                   THEN {PortUnused} ELSE ConcGens) :
        Served(HandlerName(state.stage), state, gen, Dispatch(state, gen))

LongNext ==
    \/ LongReply
    \/ Close

LongSpec == Init /\ [][LongNext]_vars

\* ------------------------------------------------------------------------
\* A conversation through the chat endpoint
\* ------------------------------------------------------------------------
\* The caller posts each request to /chat/stream with the state fields of the
\* last trailer of the previous response. Every question is substantive, the
\* model loads and every generation completes.

ChatQuestions == {UserText, <<"k", "k", "k", "k">>}

ChatGens ==
    {[load |-> TRUE, tokens |-> c, fail_at |-> -1] :
        c \in { << <<"k">> >>, << <<"a">>, <<"b">> >>,
                << <<>>, <<"k", "k">>, <<" ">> >> }}

\* the body the caller posts: the trailer's fields and the next question; the
\* caller may add its own intro_shown field, which the trailer does not carry
ChatBodies(final, q) ==
    LET state == [stage |-> final.next_stage, question |-> q,
                  response |-> final.response, history |-> final.history,
                  turn |-> final.turn]
    IN  {[json |-> TRUE, state |-> state]}
        \cup {[json |-> TRUE,
               state |-> [f \in DOMAIN state \cup {"intro_shown"} |->
                             IF f = "intro_shown" THEN b ELSE state[f]]] :
                 b \in BOOLEAN}

\* POST /chat/stream and the whole response
Post(body) ==
    \E gen \in (IF chat_stream(body, model_ready, PortUnused).outcome.loads = 0
                THEN {PortUnused} ELSE ChatGens) :
        Responded(body, gen, chat_stream(body, model_ready, gen))

\* the conversation opens at stage empathy with turn 0 and an empty history
ChatConvStart ==
    /\ op = "none"
    /\ model_ready
    /\ \E q \in ChatQuestions :
       \E body \in ChatBodies([next_stage |-> "empathy", turn |-> 0,
                               response |-> <<>>, history |-> <<>>], q) :
        Post(body)

\* the caller resends what the last trailer carried, with its next question
ChatConvTurn ==
    /\ op = "chat_stream"
    /\ reply.final.next_stage # "end"
    /\ \E q \in ChatQuestions :
       \E body \in ChatBodies(reply.final, q) :
        Post(body)

ChatConvNext ==
    \/ set_model_paths
    \/ ChatConvStart
    \/ ChatConvTurn

\* the caller's part of a step of the conversation: the body it posts
Asks ==
    \/ op = "none" /\ model_ready
       /\ \E q \in ChatQuestions :
              input' \in ChatBodies([next_stage |-> "empathy", turn |-> 0,
                                     response |-> <<>>, history |-> <<>>], q)
    \/ op = "chat_stream" /\ reply.final.next_stage # "end"
       /\ \E q \in ChatQuestions : input' \in ChatBodies(reply.final, q)

\* startup completes; while the conversation has not ended the caller posts
\* its next request, and the response to a request is one step with it
ChatConvSpec ==
    /\ Init /\ [][ChatConvNext]_vars
    /\ WF_vars(set_model_paths)
    /\ WF_input(Asks)

\* ------------------------------------------------------------------------
\* Properties
\* ------------------------------------------------------------------------
HandlerOps ==
    {"stream_empathy_reply", "stream_mi_reply", "stream_cbt1_reply",
     "stream_cbt2_reply", "stream_cbt3_reply"}

\* a stage handler was invoked on its own, with a state of its own class
HandlerServed == op \in HandlerOps

Successor(stage) ==
    CASE stage = "empathy" -> "mi"
      [] stage = "mi" -> "cbt1"
      [] stage = "cbt1" -> "cbt2"
      [] stage = "cbt2" -> "cbt3"
      [] stage = "cbt3" -> "end"
      [] OTHER -> "end"

IntroText(stage) ==
    CASE stage = "mi" -> <<"<mi.intro>">>
      [] stage = "cbt1" -> <<"<cbt1.intro>">>
      [] stage = "cbt2" -> <<"<cbt2.intro>">>
      [] stage = "cbt3" -> <<"<cbt3.intro>">>

FallbackText(stage) ==
    CASE stage = "empathy" -> <<"<empathy.fallback>">>
      [] stage = "mi" -> <<"<mi.fallback>">>
      [] stage = "cbt1" -> <<"<cbt1.fallback>">>
      [] stage = "cbt2" -> <<"<cbt2.fallback>">>
      [] stage = "cbt3" -> <<"<cbt3.fallback>">>

\* the handler got past its intro step
IntroPassed == op = "stream_empathy_reply" \/ input.intro_shown

LowSignal == PyLen(Strip(input.question)) < MinLength(input.stage)

\* the generation was asked for and ran to completion / raised
GenerationCompleted == port # PortUnused /\ ~GenFails(port)
GenerationFailed == port # PortUnused /\ GenFails(port)

TrailerHas(key) == key \in DOMAIN outcome.trailer

\* C1: on a substantive input with a successful generation, a handler at turn
\* 0..3 stays in its stage with turn + 1, and at turn 4 moves to its successor
\* with turn 0.
C1_TransitionLaw ==
    (HandlerServed /\ IntroPassed /\ ~LowSignal /\ GenerationCompleted
     /\ input.turn \in 0..4)
    => /\ outcome.trailer.next_stage =
              (IF input.turn = 4 THEN Successor(input.stage) ELSE input.stage)
       /\ TrailerHas("turn")
       /\ outcome.trailer.turn = (IF input.turn = 4 THEN 0 ELSE input.turn + 1)

\* C2: when the model load or the generation raises, the handler's trailer
\* keeps the input stage and the input turn.
C2_NoProgressOnFailure ==
    (HandlerServed /\ GenerationFailed)
    => /\ outcome.trailer.next_stage = input.stage
       /\ TrailerHas("turn")
       /\ outcome.trailer.turn = input.turn

\* C3: on a generation failure the history of the trailer is the input history.
C3_HistoryKeptOnFailure ==
    (HandlerServed /\ GenerationFailed /\ "history" \in DOMAIN input)
    => outcome.trailer.history = input.history

\* C4: a trimmed question that is empty or shorter than the stage's minimum is
\* answered with the stage's fallback, without the Generation Port, and the
\* trailer keeps the stage and the turn.
C4_LowSignalFallback ==
    (HandlerServed /\ IntroPassed /\ LowSignal)
    => /\ outcome.chunks[1] = FallbackText(input.stage)
       /\ outcome.trailer.response = FallbackText(input.stage)
       /\ outcome.loads = 0 /\ outcome.gens = 0
       /\ outcome.trailer.next_stage = input.stage
       /\ TrailerHas("turn")
       /\ outcome.trailer.turn = input.turn

\* C5: the three-character filler question is low-signal in every stage: the
\* fallback is the answer, the stage and the turn are kept and the Generation
\* Port is not used.
C5_FillerIsLowSignal ==
    (HandlerServed /\ IntroPassed /\ Strip(input.question) = <<"k", "k", "k">>)
    => /\ outcome.trailer.response = FallbackText(input.stage)
       /\ outcome.loads = 0 /\ outcome.gens = 0
       /\ outcome.trailer.next_stage = input.stage
       /\ TrailerHas("turn") => outcome.trailer.turn = input.turn

\* C6: with introShown false, a stage that has an intro answers with it,
\* without the Generation Port, and its trailer has introShown true, the input
\* stage, the input turn and the input history followed by the intro.
C6_IntroStep ==
    (HandlerServed /\ op # "stream_empathy_reply" /\ ~input.intro_shown)
    => /\ outcome.chunks[1] = IntroText(input.stage)
       /\ outcome.loads = 0 /\ outcome.gens = 0
       /\ outcome.trailer.intro_shown
       /\ outcome.trailer.next_stage = input.stage
       /\ TrailerHas("turn")
       /\ outcome.trailer.turn = input.turn
       /\ outcome.trailer.history = Append(input.history, IntroText(input.stage))

\* the last two entries of the input history are the question and the reply
RepeatedPair ==
    /\ Len(input.history) >= 2
    /\ input.history[Len(input.history) - 1] = Strip(input.question)
    /\ input.history[Len(input.history)] = outcome.trailer.response

\* C7: a completed turn appends the question and the reply to the history,
\* unless the history already ends with that pair, and then appends nothing.
C7_AppendsOnePair ==
    (HandlerServed /\ "history" \in DOMAIN input /\ IntroPassed /\ ~LowSignal
     /\ GenerationCompleted)
    => outcome.trailer.history =
           (IF RepeatedPair THEN input.history
            ELSE input.history \o <<Strip(input.question), outcome.trailer.response>>)

\* ---- the orchestrator ----
ChatServed == op = "chat_stream"

\* the request was malformed: no JSON, no state, or a state that fails validation
Malformed == ~input.json \/ ~Validates(input.state)

\* the request reached a stage handler
Handled == ChatServed /\ ~Malformed /\ model_ready
           /\ input.state.stage \in HandledStages

\* the validated state of the request
Request == AgentState(input.state)

\* a chunk that is the sentinel followed by one JSON object that parses and
\* carries next_stage, turn, response and history
IsTrailer(chunk) ==
    /\ Len(chunk) > Len(Sentinel)
    /\ SubSeq(chunk, 1, Len(Sentinel)) = Sentinel
    /\ LET p == JsonLoads(SubSeq(chunk, Len(Sentinel) + 1, Len(chunk)))
       IN  /\ p.ok
           /\ {"next_stage", "turn", "response", "history"} \subseteq DOMAIN p.val

EndsWithTrailer(stream) == stream # <<>> /\ IsTrailer(stream[Len(stream)])

\* C8 as stated: every response of the chat endpoint ends with a trailer.
C8_AlwaysTrailer == ChatServed => EndsWithTrailer(reply.stream)

\* C8 as amended: the response ends with a trailer when the request was
\* malformed or reached a stage handler (whether the handler succeeded, failed
\* or raised); when the models are not ready or the stage has no handler the
\* response is the fixed notice alone.
C8_TrailerWhenHandled ==
    ChatServed =>
        IF Malformed \/ Handled
        THEN EndsWithTrailer(reply.stream)
        ELSE reply.stream \in {<< <<"<main.not_ready>">> >>, << <<"<main.unsupported>">> >>}

\* a handler raised while streaming and the response still ends with a trailer
C8_Witness == Handled /\ outcome.raised /\ EndsWithTrailer(reply.stream)

\* the text the orchestrator accumulated from the handler's chunks
FullText == Concat(outcome.chunks)

\* the accumulated text holds no trailer, or one whose JSON does not parse, or
\* the handler raised
Desync ==
    \/ outcome.raised
    \/ ReSearch(FullText) = <<>>
    \/ ~JsonLoads(ReSearch(FullText)).ok

\* C9: after a desync the response still ends with the canonical trailer, and
\* that trailer carries the stage, turn and history of the request.
C9_DesyncKeepsState ==
    (Handled /\ Desync)
    => /\ EndsWithTrailer(reply.stream)
       /\ reply.final.next_stage = Request.stage
       /\ reply.final.turn = Request.turn
       /\ reply.final.history = Request.history

\* a handler's trailer that does not parse, on a request with a transcript and
\* a turn that is not the default
C9_Witness ==
    /\ Handled /\ ~outcome.raised
    /\ ReSearch(FullText) # <<>> /\ ~JsonLoads(ReSearch(FullText)).ok
    /\ Request.history # <<>> /\ Request.turn > 0
    /\ reply.final.history = Request.history

\* C10: whatever reply text precedes it, the handler's trailer is what the
\* orchestrator parses out of the accumulated text.
C10_RoundTrip ==
    (Handled /\ ~outcome.raised)
    => /\ reply.adopted.parsed
       /\ reply.adopted.result = outcome.trailer

\* ---- C11 ----
\* the body is not JSON, or carries no state, or a state with a required field
\* missing or a stage outside the six declared values
BadInput ==
    \/ ~input.json
    \/ ~({"stage", "question", "response", "history"} \subseteq DOMAIN input.state)
    \/ input.state.stage \notin {"empathy", "mi", "cbt1", "cbt2", "cbt3", "end"}

\* C11: a malformed request is answered, without any stage handler, by the
\* fixed error message followed by a trailer with next_stage empathy, turn 0
\* and an empty history.
C11_InputError ==
    (ChatServed /\ BadInput)
    => /\ ~reply.called
       /\ outcome = NoOutcome /\ port = PortUnused
       /\ Len(reply.stream) = 2
       /\ reply.stream[1] = <<"<main.parse_error>">>
       /\ IsTrailer(reply.stream[2])
       /\ LET t == JsonLoads(SubSeq(reply.stream[2], Len(Sentinel) + 1,
                                    Len(reply.stream[2]))).val
          IN  t.next_stage = "empathy" /\ t.turn = 0 /\ t.history = <<>>

\* a JSON body whose state names a stage outside the six was answered
C11_Witness ==
    /\ ChatServed /\ input.json /\ model_ready
    /\ "stage" \in DOMAIN input.state /\ input.state.stage = "s_turn"
    /\ reply.path = "input_error"

\* ---- C12 ----
\* the request of the scenario: stage cbt1, turn 4, introShown true, a
\* substantive question and eight history entries, with the models ready
Cbt1Scenario ==
    /\ Handled
    /\ input.state.stage = "cbt1" /\ Request.turn = 4
    /\ "intro_shown" \in DOMAIN input.state /\ input.state.intro_shown
    /\ Strip(input.state.question) # <<>>
    /\ Len(input.state.history) = 8

\* C12: the response to the scenario's request ends with a trailer whose
\* next_stage is cbt2, whose turn is 0 and whose history is two entries longer
\* than the request's.
C12_Cbt1Transition ==
    Cbt1Scenario
    => /\ EndsWithTrailer(reply.stream)
       /\ reply.final.next_stage = "cbt2"
       /\ reply.final.turn = 0
       /\ Len(reply.final.history) = Len(input.state.history) + 2

\* ---- C13 ----
\* at most one instance per key; an entry exists exactly when one was
\* constructed; every request that holds an instance holds the cached one
OneInstance ==
    /\ \A k \in HandledStages :
        /\ constructed[k] <= 1
        /\ (LLM_INSTANCE[k] = 0) <=> (constructed[k] = 0)
    /\ \A r \in Reqs :
        requests[r].llm # 0
        => requests[r].llm = LLM_INSTANCE[CallStage(requests[r].call)]

\* an entry of the cache, once written, is never written again
WrittenOnce ==
    \A k \in HandledStages :
        LLM_INSTANCE[k] # 0 => LLM_INSTANCE'[k] = LLM_INSTANCE[k]

\* C13: whatever the interleaving of the requests, each stage's cache entry is
\* written at most once, at most one instance is constructed for it, and every
\* request of the stage uses that instance.
C13_SingleFlight == []OneInstance /\ [][WrittenOnce]_vars

\* two requests of one stage were both started before either delivered a
\* chunk, and hold the same instance
C13_Witness ==
    /\ requests[1].pc = "streaming" /\ requests[2].pc = "streaming"
    /\ requests[1].stream = <<>> /\ requests[2].stream = <<>>
    /\ requests[1].llm # 0 /\ requests[2].llm = requests[1].llm
    /\ CallStage(requests[1].call) = CallStage(requests[2].call)

\* ---- C14 ----
\* what the caller of a chat request that reached a handler has received so
\* far: the handler's chunks in the handler's order, each once; then, and only
\* after all of them, the error chunk if the handler raised, and the canonical
\* trailer
InOrder(q) ==
    LET expected == q.rep.outcome.chunks
                    \o (IF q.rep.outcome.raised
                        THEN << <<NL, "<main.stream_error>">> >> ELSE <<>>)
                    \o <<TrailerChunk(MainKeys, q.rep.final)>>
    IN  /\ Len(q.stream) <= Len(expected)
        /\ q.stream = SubSeq(expected, 1, Len(q.stream))

\* C14: every request's response is made of its own handler's fragments, in
\* order and once each, followed by the canonical trailer.
C14_StreamOrder ==
    \A r \in Reqs :
        (requests[r].pc = "streaming" /\ requests[r].rep.path = "handled")
        => InOrder(requests[r])

\* a chat response is complete, with three handler chunks or more before the
\* canonical trailer, while another request is in the middle of its own
C14_Witness ==
    \E r, o \in Reqs :
        /\ r # o
        /\ requests[r].pc = "streaming" /\ requests[r].rep.path = "handled"
        /\ Len(requests[r].rep.outcome.chunks) >= 3
        /\ requests[r].stream = requests[r].rep.stream
        /\ requests[o].pc = "streaming" /\ requests[o].stream # <<>>
        /\ Len(requests[o].stream) < Len(requests[o].rep.stream)

\* ---- C15 ----
\* the handler's stream ends with a chunk that is the sentinel and a JSON
\* object that parses
StreamEndsWithTrailer ==
    /\ outcome.chunks # <<>>
    /\ LET c == outcome.chunks[Len(outcome.chunks)]
       IN  /\ Len(c) > Len(Sentinel)
           /\ SubSeq(c, 1, Len(Sentinel)) = Sentinel
           /\ JsonLoads(SubSeq(c, Len(Sentinel) + 1, Len(c))).ok

\* the canonical trailer carries the handler's next_stage and history, and the
\* handler's turn, or the turn of the state when the handler's trailer has none
Adopted(state, final) ==
    /\ final.next_stage = outcome.trailer.next_stage
    /\ final.history = outcome.trailer.history
    /\ final.turn = (IF TrailerHas("turn") THEN outcome.trailer.turn ELSE state.turn)

\* C15: when a handler's stream ends with a trailer that parses, the canonical
\* trailer repeats its next_stage, turn and history: in the responses of the
\* chat endpoint, and for the stream of every handler when the orchestrator's
\* adoption is applied to it.
C15_CanonicalAdoption ==
    /\ (Handled /\ ~outcome.raised /\ StreamEndsWithTrailer)
       => Adopted(Request, reply.final)
    /\ (HandlerServed /\ op # "stream_empathy_reply" /\ StreamEndsWithTrailer)
       => Adopted(input, Canonical(Adopt(input, Concat(outcome.chunks))))

\* ---- C16 ----
\* C16: a trailer of a handled request that names another stage than the
\* request's carries turn 0: the handler's own trailer, and the canonical
\* trailer of the chat endpoint.
C16_TurnResetOnTransition ==
    /\ (HandlerServed /\ outcome.trailer.next_stage # input.stage)
       => (TrailerHas("turn") /\ outcome.trailer.turn = 0)
    /\ (Handled /\ ~outcome.raised
        /\ outcome.trailer.next_stage # input.state.stage)
       => (TrailerHas("turn") /\ outcome.trailer.turn = 0)
    /\ (Handled /\ reply.final.next_stage # input.state.stage)
       => reply.final.turn = 0

\* ---- C17 ----
\* the caller's texts are made of letters and blanks; every text of a handler
\* (a generated reply, an intro, a fallback) holds another symbol
IsUserText(t) == \A i \in 1..Len(t) : t[i] \in {"k", " "}

\* even length, user texts at the odd positions (the even indices counted
\* from 0) and handler texts at the even ones
Paired(h) ==
    /\ Len(h) % 2 = 0
    /\ \A i \in 1..Len(h) : (i % 2 = 1) <=> IsUserText(h[i])

\* every message the handler built carries the role of its author
RolesRight(messages) ==
    \A i \in 1..Len(messages) :
        /\ messages[i].role = "user" => IsUserText(messages[i].content)
        /\ messages[i].role = "assistant" => ~IsUserText(messages[i].content)

\* C17: after every generated turn of a conversation that began with an empty
\* history, the returned history is made of (user, assistant) pairs, and the
\* messages built from the history sent carry the right roles.
C17_HistoryShape ==
    (HandlerServed /\ outcome.path = "success")
    => /\ Paired(outcome.trailer.history)
       /\ RolesRight(outcome.messages)

\* ---- C18 ----
HasIntro(stage) == stage \in {"mi", "cbt1", "cbt2", "cbt3"}

\* a turn handled right after the conversation entered a stage with an intro
\* delivers the intro; a turn handled in the stage of the turn before does not
IntroOnEntry ==
    (op \in HandlerOps /\ op' \in HandlerOps /\ HasIntro(input'.stage))
    => /\ input'.stage # input.stage => outcome'.path = "intro"
       /\ (input'.stage = input.stage /\ <<input', outcome'>> # <<input, outcome>>)
          => outcome'.path # "intro"

\* C18: in a conversation each stage with an intro delivers it on the first
\* turn handled after the stage is entered, and on no later turn in the stage.
C18_IntroOnce == [][IntroOnEntry]_vars

\* ---- C19 ----
\* a valid request that arrives before the models are ready, or whose stage
\* has no handler
Guarded ==
    /\ ChatServed /\ ~Malformed
    /\ ~model_ready \/ input.state.stage \notin HandledStages

\* C19: such a request reaches no handler and no Generation Port, and its
\* response is the one fixed notice: the not-ready notice when the models are
\* not ready, the unsupported-stage notice otherwise.
C19_Guards ==
    Guarded
    => /\ ~reply.called
       /\ outcome = NoOutcome /\ port = PortUnused
       /\ reply.stream = << IF ~model_ready THEN <<"<main.not_ready>">>
                            ELSE <<"<main.unsupported>">> >>

\* the models are ready and a request at stage end got the unsupported notice
C19_Witness ==
    /\ Guarded /\ model_ready /\ input.state.stage = "end"
    /\ reply.stream = << <<"<main.unsupported>">> >>

\* ---- C20 ----
\* C20: a turn of cbt3 after the first (the intro shown, a turn of 1 or more,
\* a substantive question) is answered without the Generation Port.
C20_Cbt3Playback ==
    (op = "stream_cbt3_reply" /\ IntroPassed /\ ~LowSignal /\ input.turn >= 1)
    => (outcome.loads = 0 /\ outcome.gens = 0)

\* ---- C21 ----
\* the places of the text where the sentinel starts
SentinelAt(text) ==
    {i \in 1..(Len(text) - Len(Sentinel) + 1) :
        SubSeq(text, i, i + Len(Sentinel) - 1) = Sentinel}

\* the text after the last sentinel
AfterLastSentinel(text) ==
    LET last == CHOOSE i \in SentinelAt(text) : \A j \in SentinelAt(text) : j <= i
    IN  SubSeq(text, last + Len(Sentinel), Len(text))

\* C21 as stated: the response to a handled request holds the sentinel once.
C21_OneSentinel ==
    Handled => Cardinality(SentinelAt(Concat(reply.stream))) = 1

\* C21 as amended: the response to a handled request holds the sentinel once
\* when the handler raised before a trailer of its own, and twice or more when
\* the handler emitted its trailer (the canonical trailer follows it); what
\* follows the last sentinel is one JSON object, the canonical trailer.
C21_LastSentinel ==
    Handled
    => /\ IF outcome.raised
          THEN Cardinality(SentinelAt(Concat(reply.stream))) = 1
          ELSE Cardinality(SentinelAt(Concat(reply.stream))) >= 2
       /\ JsonLoads(AfterLastSentinel(Concat(reply.stream))).ok
       /\ JsonLoads(AfterLastSentinel(Concat(reply.stream))).val = reply.final

\* a handler emitted its trailer and the response holds the sentinel twice
C21_Witness ==
    /\ Handled /\ ~outcome.raised
    /\ Cardinality(SentinelAt(Concat(reply.stream))) = 2

\* ---- C22 ----
\* C22: while the plain call of one request is in progress, every other
\* request in flight can be advanced by the event loop.
C22_NonStalling ==
    \A r \in Reqs :
        (running # 0 /\ r # running /\ requests[r].pc # "idle")
        => ENABLED (Call(r) \/ Return(r) \/ Yield(r))

\* ---- C23 ----
\* C23: the message list a handler passes to the Generation Port is one system
\* message, then at most ten messages built from the history, then the
\* question as the final user message.
C23_BoundedWindow ==
    (HandlerServed /\ outcome.gens > 0)
    => /\ Len(outcome.messages) >= 2
       /\ outcome.messages[1].role = "system"
       /\ outcome.messages[Len(outcome.messages)]
              = Msg("user", Strip(input.question))
       /\ Len(outcome.messages) - 2 <= 10

\* ---- C24 ----
\* C24: a conversation that starts at empathy with turn 0 and an empty
\* history, resends the last trailer's fields through the chat endpoint, asks
\* substantive questions and meets no generation failure, eventually receives
\* a trailer with next_stage = end.
C24_ReachesEnd ==
    <>(op = "chat_stream" /\ reply.final.next_stage = "end")

\* ---- C25 ----
\* the stage or the one after it
StaysOrAdvances(stage, next_stage) ==
    next_stage \in {stage, Successor(stage)}

\* C25: for every well-formed request, on every path, the next_stage of the
\* handler's trailer and of the canonical trailer is the input stage or its
\* immediate successor.
C25_StageMonotone ==
    /\ (HandlerServed /\ ~outcome.raised)
       => StaysOrAdvances(input.stage, outcome.trailer.next_stage)
    /\ Handled
       => /\ ~outcome.raised
             => StaysOrAdvances(Request.stage, outcome.trailer.next_stage)
          /\ StaysOrAdvances(Request.stage, reply.final.next_stage)

\* a request at empathy whose canonical trailer moves the conversation to mi
C25_Witness ==
    /\ Handled /\ ~outcome.raised
    /\ Request.stage = "empathy"
    /\ outcome.trailer.next_stage = "mi"
    /\ reply.final.next_stage = "mi"

\* ---- C26 ----
\* C26: in a conversation that starts with turn 0 and resends the returned
\* turn, under any mix of substantive inputs, empty inputs and generation
\* failures, every trailer that carries a turn has it in 0..4.
C26_TurnBound ==
    (HandlerServed /\ TrailerHas("turn")) => outcome.trailer.turn \in 0..4

\* ---- C27 ----
\* C27: for every request handled through the chat endpoint the history of the
\* canonical trailer has the request's history as a prefix.
C27_AppendOnly ==
    Handled
    => /\ Len(Request.history) <= Len(reply.final.history)
       /\ SubSeq(reply.final.history, 1, Len(Request.history)) = Request.history

====
